---- MODULE Spec2Model ----
(***************************************************************************)
(* Model of the PapagayoEngine orchestration layer: the Engine singleton   *)
(* (setupInstance / init / update / run / clean) of                        *)
(* Engine/src/PapagayoEngine.cpp and the subsystem singletons it drives.   *)
(* Engine methods are modelled step by step: pc is the position of the     *)
(* single thread of control inside init(), run() and update().             *)
(* The second part models the Scene, its Entities and the domain Managers  *)
(* with the Components they track.                                         *)
(***************************************************************************)
EXTENDS Integers, Sequences, FiniteSets, TLC

\* ------------------------------------------------------------------ bounds
MaxCalls == 5        \* calls made by the client code (main) in one behaviour
MaxFrames == 3       \* iterations of the frame loop explored per run()
MaxEntities == 4     \* Entity objects the client creates in one behaviour
MaxComps == 3        \* Component objects constructed in one behaviour
MaxTicks == 2        \* start()/update() calls that reach one Component

\* --------------------------------------------------------------- constants
AppNames == {"PAPAGAYO ENGINE", "Juego"}

\* nullptr
NULL == 0

VARIABLES
    instance_,      \* PapagayoEngine::instance_ : NULL or the identity of the object
    appName_,       \* appName_ of the object instance_ designates ("" when none)
    running_,       \* PapagayoEngine::running_
    engineAlive,    \* the object instance_ designates has not been deleted
    nextId,         \* identity given to the next object that new constructs
    sub,            \* per subsystem singleton: has its instance been set up
    pc,             \* position of control: idle, init, loop, frame
    step,           \* inside init(): index of the next statement (1..4)
    caller,         \* who called the init() in progress: client or run
    initLog,        \* setupInstance calls made by the init() in progress and outcomes
    rtShaderSetups, \* number of setupRTShaderGenerator() calls made so far
    meshCreated,    \* number of MeshComponent objects init() has allocated
    lastError,      \* message of the exception that ended the client's last call, or none
    runState,       \* of the latest run(): none, active, returned, failed
    initsInRun,     \* init() calls made by the latest run()
    frames,         \* update() calls started by the latest run()
    frameLog,       \* calls made so far by the update() in progress
    lastFrame,      \* calls made by the last update() that returned
    framesDone,     \* number of update() calls that returned
    stopAt,         \* frames at the moment running_ was last cleared inside a run, else -1
    initDone,       \* some init() has run to completion
    cleanLog,       \* calls made by clean()
    lastCall,       \* the client's last call: operation, target, argument, result
    nCalls,         \* number of engine calls the client has made
    entities,       \* Scene::entities : key -> Entity
    usedNames,      \* Scene::usedNames : base name -> collision counter
    addLog,         \* the addEntity calls so far: << name, effective key, Entity >>
    nextEnt,        \* identity given to the next Entity the client constructs
    entComps,       \* per live Entity: the list of Components it owns
    compsList,      \* Manager::_compsList, per Manager
    comp,           \* per live Component: its type name, Manager and Entity
    setups,         \* per live Component: number of setUp() calls it received
    updates,        \* per live Component: number of update() calls it received
    nextCmp,        \* identity given to the next Component constructed
    opLog,          \* the calls made by the last Manager start()/update()
    runLog,         \* the calls recorded by the frames of the latest run() that returned
    renderInst,     \* RenderManager::instance_ : NULL or the identity of the object
    uiInst,         \* UIManager::instance_ : NULL or the identity of the object
    uiAlive         \* the object UIManager::instance_ designates has not been deleted

vars == << instance_, appName_, running_, engineAlive, nextId, sub, pc, step,
           caller, initLog, rtShaderSetups, meshCreated, lastError, runState,
           initsInRun, frames, frameLog, lastFrame, framesDone, stopAt,
           initDone, cleanLog, lastCall, nCalls, entities, usedNames, addLog,
           nextEnt, entComps, compsList, comp, setups, updates, nextCmp, opLog,
           runLog, renderInst, uiInst, uiAlive >>

engineVars == << instance_, appName_, running_, engineAlive, nextId >>
initVars == << sub, step, caller, initLog, rtShaderSetups, meshCreated, initDone >>
runVars == << runState, initsInRun, frames, frameLog, lastFrame, framesDone, stopAt >>
sceneVars == << entities, usedNames, addLog, nextEnt >>
compVars == << entComps, compsList, comp, setups, updates, nextCmp, opLog >>
singletonVars == << renderInst, uiInst, uiAlive >>

InitOrder_Swapped == << "OgreContext", "SceneManager", "ResourceManager" >>

\* The fixed order of PapagayoEngine::init(): the setupInstance calls.
InitOrder == << "OgreContext", "ResourceManager", "SceneManager" >>

Subsystems == { InitOrder[i] : i \in 1..Len(InitOrder) }

\* The Managers that derive from Manager and keep a _compsList.
Managers == { "RenderManager", "PhysicsManager", "UIManager" }

NoCall == [op |-> "none", man |-> "", ent |-> 0, arg |-> "", ret |-> "void"]

\* No Scene content, no Component, no Manager singleton, no frame recorded.
EcsInit ==
    /\ entities = << >>
    /\ usedNames = << >>
    /\ addLog = << >>
    /\ nextEnt = 1
    /\ entComps = << >>
    /\ compsList = [m \in Managers |-> << >>]
    /\ comp = << >>
    /\ setups = << >>
    /\ updates = << >>
    /\ nextCmp = 1
    /\ opLog = << >>
    /\ runLog = << >>
    /\ renderInst = NULL
    /\ uiInst = NULL
    /\ uiAlive = FALSE

Init ==
    /\ instance_ = NULL
    /\ appName_ = ""
    /\ running_ = FALSE
    /\ engineAlive = FALSE
    /\ nextId = 1
    /\ sub = [s \in Subsystems |-> FALSE]
    /\ pc = "idle"
    /\ step = 0
    /\ caller = "none"
    /\ initLog = << >>
    /\ rtShaderSetups = 0
    /\ meshCreated = 0
    /\ lastError = "none"
    /\ runState = "none"
    /\ initsInRun = 0
    /\ frames = 0
    /\ frameLog = << >>
    /\ lastFrame = << >>
    /\ framesDone = 0
    /\ stopAt = -1
    /\ initDone = FALSE
    /\ cleanLog = << >>
    /\ lastCall = NoCall
    /\ nCalls = 0
    /\ EcsInit

\* A call made by the client: only between engine calls, within the bound.
ClientCall(op, arg, ret) ==
    /\ pc = "idle"
    /\ nCalls < MaxCalls
    /\ nCalls' = nCalls + 1
    /\ lastCall' = [op |-> op, man |-> "", ent |-> 0, arg |-> arg, ret |-> ret]
    /\ lastError' = "none"

\* ------------------------------------------------- PapagayoEngine singleton

\* new PapagayoEngine(appName): the constructor sets appName_ only; running_
\* has no initializer in the constructor, its start value is a free choice.
NewEngine(appName) ==
    /\ instance_' = nextId
    /\ nextId' = nextId + 1
    /\ appName_' = appName
    /\ engineAlive' = TRUE
    /\ \E r \in BOOLEAN : running_' = r

SetupInstance_Overwrite(appName) ==
    /\ UNCHANGED singletonVars
    /\ UNCHANGED runLog
    /\ ClientCall("setupInstance", appName, "true")
    /\ NewEngine(appName)
    /\ UNCHANGED << pc, cleanLog >>
    /\ UNCHANGED initVars
    /\ UNCHANGED runVars
    /\ UNCHANGED sceneVars
    /\ UNCHANGED compVars

\* bool PapagayoEngine::setupInstance(const std::string& appName)
SetupInstance(appName) ==
    /\ UNCHANGED singletonVars
    /\ UNCHANGED runLog
    /\ IF instance_ = NULL
         THEN /\ ClientCall("setupInstance", appName, "true")
              /\ NewEngine(appName)
         ELSE /\ ClientCall("setupInstance", appName, "false")
              /\ UNCHANGED engineVars
    /\ UNCHANGED << pc, cleanLog >>
    /\ UNCHANGED initVars
    /\ UNCHANGED runVars
    /\ UNCHANGED sceneVars
    /\ UNCHANGED compVars

\* ------------------------------------------------------ PapagayoEngine::init

\* The outcomes of a subsystem's static setupInstance(): when its singleton
\* already exists the call changes nothing and returns false; otherwise it
\* constructs the singleton and returns true, or construction fails with an
\* exception and no singleton is left behind.
SetupOutcomes(s) ==
    IF sub[s] THEN {"exists"} ELSE {"created", "threw"}

WrapInitError_Fixed(s) == "OgreContext init fail"

\* what() of the std::runtime_error init() throws from the catch block of s.
WrapInitError(s) == s \o " init fail"

\* The subsystems an error message identifies.
NamedBy(msg) == { s \in Subsystems : msg = s \o " init fail" }

InitThrow_Swallow(s) ==
    /\ step' = step + 1
    /\ UNCHANGED << pc, lastError, runState, sub, initsInRun, frames >>

InitThrow_RunContinues(s) ==
    /\ pc' = IF caller = "run" THEN "loop" ELSE "idle"
    /\ step' = 0
    /\ lastError' = IF caller = "run" THEN lastError ELSE s \o " init fail"
    /\ UNCHANGED << runState, sub, initsInRun, frames >>

\* init() is left by an exception: control is back in the client (run() has
\* no handler, so a run() in progress is left by the same exception).
InitThrow(s) ==
    /\ pc' = "idle"
    /\ step' = 0
    /\ lastError' = WrapInitError(s)
    /\ runState' = IF caller = "run" THEN "failed" ELSE runState
    /\ UNCHANGED << sub, initsInRun, frames >>

\* try { S::setupInstance(...); } catch (const std::exception& e) { throw ... }
InitSetup ==
    /\ UNCHANGED singletonVars
    /\ UNCHANGED runLog
    /\ pc = "init"
    /\ step \in 1..Len(InitOrder)
    /\ LET s == InitOrder[step] IN
       \E o \in SetupOutcomes(s) :
         /\ initLog' = Append(initLog, << s, o >>)
         /\ IF o = "threw"
              THEN InitThrow(s)
              ELSE /\ sub' = [sub EXCEPT ![s] = TRUE]
                   /\ step' = step + 1
                   /\ UNCHANGED << pc, lastError, runState, initsInRun, frames >>
    /\ UNCHANGED engineVars
    /\ UNCHANGED << caller, rtShaderSetups, meshCreated, initDone, cleanLog,
                    frameLog, lastFrame, framesDone, stopAt, lastCall, nCalls >>
    /\ UNCHANGED sceneVars
    /\ UNCHANGED compVars

\* OgreContext::getInstance()->setupRTShaderGenerator(); new MeshComponent();
\* then init() returns to its caller.
InitPost ==
    /\ UNCHANGED singletonVars
    /\ UNCHANGED runLog
    /\ pc = "init"
    /\ step = Len(InitOrder) + 1
    /\ rtShaderSetups' = rtShaderSetups + 1
    /\ meshCreated' = meshCreated + 1
    /\ initDone' = TRUE
    /\ step' = 0
    /\ pc' = IF caller = "run" THEN "loop" ELSE "idle"
    /\ UNCHANGED engineVars
    /\ UNCHANGED << sub, caller, initLog, lastError, cleanLog, lastCall, nCalls >>
    /\ UNCHANGED runVars
    /\ UNCHANGED sceneVars
    /\ UNCHANGED compVars

\* init() has no guard: every call starts at the first statement.
InitEnter(who) ==
    /\ pc' = "init"
    /\ step' = 1
    /\ caller' = who
    /\ initLog' = << >>

\* The client calls PapagayoEngine::getInstance()->init().
InitCall ==
    /\ UNCHANGED singletonVars
    /\ UNCHANGED runLog
    /\ instance_ # NULL
    /\ engineAlive
    /\ ClientCall("init", "", "void")
    /\ InitEnter("client")
    /\ UNCHANGED engineVars
    /\ UNCHANGED << sub, rtShaderSetups, meshCreated, initDone, cleanLog >>
    /\ UNCHANGED runVars
    /\ UNCHANGED sceneVars
    /\ UNCHANGED compVars

\* ----------------------------------------------- PapagayoEngine::update/run

\* what() of the std::runtime_error update() throws from its catch block.
RenderError == "Fallo de renderizado"

\* update() returns to its caller: the loop of run(), or the client.
UpdateReturn ==
    /\ pc' = IF caller = "run" THEN "loop" ELSE "idle"
    /\ lastFrame' = frameLog'
    /\ framesDone' = framesDone + 1
    /\ UNCHANGED << lastError, runState >>

UpdateThrow_Swallow ==
    /\ pc' = IF caller = "run" THEN "loop" ELSE "idle"
    /\ lastError' = RenderError
    /\ UNCHANGED << runState, lastFrame, framesDone >>

\* update() is left by an exception; run() has no handler, so a run() in
\* progress is left by it as well and control is back in the client.
UpdateThrow ==
    /\ pc' = "idle"
    /\ lastError' = RenderError
    /\ runState' = IF caller = "run" THEN "failed" ELSE runState
    /\ UNCHANGED << lastFrame, framesDone >>

UpdateBody_StopSensitive == IF running_ THEN << "renderOneFrame" >> ELSE << >>

UpdateBody_AdvanceTwice == << "renderOneFrame", "renderOneFrame" >>

\* The calls the body of update() makes when nothing fails:
\* OgreContext::getInstance()->getOgreRoot()->renderOneFrame(), and nothing else.
UpdateBody == << "renderOneFrame" >>

\* The body of update(), inside try/catch: it returns, or renderOneFrame()
\* throws. The frames of run() that returned are recorded in runLog.
RenderOneFrame ==
    /\ UNCHANGED singletonVars
    /\ pc = "frame"
    /\ \/ /\ frameLog' = frameLog \o UpdateBody
          /\ runLog' = IF caller = "run" THEN runLog \o UpdateBody ELSE runLog
          /\ UpdateReturn
       \/ /\ frameLog' = frameLog
          /\ runLog' = runLog
          /\ UpdateThrow
    /\ UNCHANGED engineVars
    /\ UNCHANGED initVars
    /\ UNCHANGED << initsInRun, frames, stopAt, cleanLog, lastCall, nCalls >>
    /\ UNCHANGED sceneVars
    /\ UNCHANGED compVars

LoopTop_NoCheck ==
    /\ pc = "loop"
    /\ frames < MaxFrames
    /\ pc' = "frame"
    /\ frames' = frames + 1
    /\ frameLog' = << >>
    /\ UNCHANGED runState

\* while (running_) { update(); }
LoopTop ==
    /\ pc = "loop"
    /\ IF running_
         THEN /\ frames < MaxFrames
              /\ pc' = "frame"
              /\ frames' = frames + 1
              /\ frameLog' = << >>
              /\ UNCHANGED runState
         ELSE /\ pc' = "idle"
              /\ runState' = "returned"
              /\ UNCHANGED << frames, frameLog >>

\* One evaluation of the loop condition of run().
RunLoop ==
    /\ UNCHANGED singletonVars
    /\ UNCHANGED runLog
    /\ LoopTop
    /\ UNCHANGED engineVars
    /\ UNCHANGED initVars
    /\ UNCHANGED << initsInRun, lastFrame, framesDone, stopAt, lastError,
                    cleanLog, lastCall, nCalls >>
    /\ UNCHANGED sceneVars
    /\ UNCHANGED compVars

\* The client calls PapagayoEngine::getInstance()->run(): its first statement
\* is init().
RunCall ==
    /\ UNCHANGED singletonVars
    /\ instance_ # NULL
    /\ engineAlive
    /\ ClientCall("run", "", "void")
    /\ InitEnter("run")
    /\ runState' = "active"
    /\ runLog' = << >>
    /\ initsInRun' = 1
    /\ frames' = 0
    /\ stopAt' = -1
    /\ UNCHANGED engineVars
    /\ UNCHANGED << sub, rtShaderSetups, meshCreated, initDone,
                    cleanLog, frameLog, lastFrame, framesDone >>
    /\ UNCHANGED sceneVars
    /\ UNCHANGED compVars

\* The client calls PapagayoEngine::getInstance()->update() by itself.
UpdateCall ==
    /\ UNCHANGED singletonVars
    /\ UNCHANGED runLog
    /\ instance_ # NULL
    /\ engineAlive
    /\ sub["OgreContext"]
    /\ ClientCall("update", "", "void")
    /\ pc' = "frame"
    /\ caller' = "client"
    /\ frameLog' = << >>
    /\ UNCHANGED engineVars
    /\ UNCHANGED << sub, step, initLog, rtShaderSetups, meshCreated, initDone,
                    cleanLog, runState, initsInRun, frames,
                    lastFrame, framesDone, stopAt >>
    /\ UNCHANGED sceneVars
    /\ UNCHANGED compVars

\* The running flag is cleared by the client before run().
StopCall ==
    /\ UNCHANGED singletonVars
    /\ UNCHANGED runLog
    /\ instance_ # NULL
    /\ engineAlive
    /\ ClientCall("stop", "", "void")
    /\ running_' = FALSE
    /\ UNCHANGED << instance_, appName_, engineAlive, nextId, pc, cleanLog >>
    /\ UNCHANGED initVars
    /\ UNCHANGED runVars
    /\ UNCHANGED sceneVars
    /\ UNCHANGED compVars

\* The running flag is cleared while a frame is in flight (by code called
\* back during renderOneFrame).
StopInFrame ==
    /\ UNCHANGED singletonVars
    /\ UNCHANGED runLog
    /\ pc = "frame"
    /\ running_
    /\ running_' = FALSE
    /\ stopAt' = IF caller = "run" THEN frames ELSE stopAt
    /\ UNCHANGED << instance_, appName_, engineAlive, nextId, pc, lastError,
                    cleanLog, lastCall, nCalls >>
    /\ UNCHANGED initVars
    /\ UNCHANGED << runState, initsInRun, frames, frameLog, lastFrame, framesDone >>
    /\ UNCHANGED sceneVars
    /\ UNCHANGED compVars

\* ------------------------------------------------------------ Scene

\* The range of a sequence or of a finite function.
Range(f) == { f[x] : x \in DOMAIN f }

\* f without the arguments in S.
Drop(f, S) ==
    IF DOMAIN f \subseteq S THEN << >> ELSE [x \in DOMAIN f \ S |-> f[x]]

\* f with f[k] = v added or replaced (std::map operator[] assignment).
Put(f, k, v) ==
    [x \in DOMAIN f \cup {k} |-> IF x = k THEN v ELSE f[x]]

\* seq without the elements in S, order kept (std::list::remove).
Without(seq, S) == SelectSeq(seq, LAMBDA x : x \notin S)

\* The base names the client passes to addEntity.
SceneNames == { "Enemy", "Enemy_1" }

\* A client call on the Scene or on a Manager: only between engine calls.
\* lastCall keeps the Manager, the Entity and the argument of the call.
EcsCall(op, m, e, arg, ret, err) ==
    /\ pc = "idle"
    /\ lastCall' = [op |-> op, man |-> m, ent |-> e, arg |-> arg, ret |-> ret]
    /\ lastError' = err
    /\ UNCHANGED nCalls

\* The disambiguated key of the k-th collision on name.
Disambiguated(name, k) == name \o "_" \o ToString(k)

Counter_Zero(name) == 0

\* The collision counter of name (0 when name never collided).
Counter(name) == IF name \in DOMAIN usedNames THEN usedNames[name] ELSE 0

\* The key addEntity stores the Entity under.
EffectiveKey(name) ==
    IF name \in DOMAIN entities
      THEN Disambiguated(name, Counter(name) + 1)
      ELSE name

\* void Scene::addEntity(const std::string& name, Entity* ent), called with
\* a newly constructed Entity.
AddEntity(name) ==
    /\ UNCHANGED singletonVars
    /\ UNCHANGED runLog
    /\ nextEnt <= MaxEntities
    /\ LET key == EffectiveKey(name) IN
         /\ EcsCall("addEntity", "", 0, "", "void", "none")
         /\ entities' = Put(entities, key, nextEnt)
         /\ usedNames' = IF name \in DOMAIN entities
                           THEN Put(usedNames, name, Counter(name) + 1)
                           ELSE usedNames
         /\ addLog' = Append(addLog, << name, key, nextEnt >>)
    /\ entComps' = Put(entComps, nextEnt, << >>)
    /\ nextEnt' = nextEnt + 1
    /\ UNCHANGED << compsList, comp, setups, updates, nextCmp, opLog >>
    /\ UNCHANGED << pc, cleanLog >>
    /\ UNCHANGED engineVars
    /\ UNCHANGED initVars
    /\ UNCHANGED runVars

Found_Aware(name) ==
    IF name \in DOMAIN entities
      THEN entities[name]
      ELSE IF Disambiguated(name, 1) \in DOMAIN entities
             THEN entities[Disambiguated(name, 1)]
             ELSE 0

\* The Entity stored under the key name, 0 (nullptr) when there is none.
Found(name) == IF name \in DOMAIN entities THEN entities[name] ELSE 0

\* Entity* Scene::getEntity(const std::string& name): exact-key lookup.
GetEntity(name) ==
    /\ UNCHANGED singletonVars
    /\ UNCHANGED runLog
    /\ EcsCall("getEntity", "", Found(name), name,
               IF Found(name) # 0 THEN "found" ELSE "null", "none")
    /\ UNCHANGED sceneVars
    /\ UNCHANGED compVars
    /\ UNCHANGED << pc, cleanLog >>
    /\ UNCHANGED engineVars
    /\ UNCHANGED initVars
    /\ UNCHANGED runVars

\* ---------------------------------------------------------- Managers

RenderRegistry_NoCamera == { "MeshComponent", "LightComponent", "PlaneComponent" }

RenderRegistry_WithScript ==
    { "MeshComponent", "Camera", "LightComponent", "PlaneComponent", "Script" }

\* The type names the RenderManager constructor registers.
RenderRegistry == { "MeshComponent", "Camera", "LightComponent", "PlaneComponent" }

\* The UIManager constructor registers no type name.
UIRegistry == { }

\* The physics domain constructs Rigidbody components.
PhysicsRegistry == { "Rigidbody" }

\* The factory registry of Manager m: the registered type names.
Registry(m) ==
    CASE m = "RenderManager" -> RenderRegistry
      [] m = "PhysicsManager" -> PhysicsRegistry
      [] OTHER -> UIRegistry

\* The type names the client asks for.
TypeNames ==
    { "MeshComponent", "Camera", "LightComponent", "PlaneComponent",
      "Rigidbody", "Script" }

\* The live Entities.
LiveEntities == DOMAIN entComps

\* Component* addComponent(entity, typeName), on a registered type name:
\* constructs the Component and appends it to both lists.
AddComponentHit(m, e, T) ==
    /\ nextCmp <= MaxComps
    /\ EcsCall("addComponent", m, e, T, "ok", "none")
    /\ comp' = Put(comp, nextCmp, [type |-> T, man |-> m, ent |-> e])
    /\ setups' = Put(setups, nextCmp, 0)
    /\ updates' = Put(updates, nextCmp, 0)
    /\ compsList' = [compsList EXCEPT ![m] = Append(@, nextCmp)]
    /\ entComps' = [entComps EXCEPT ![e] = Append(@, nextCmp)]
    /\ nextCmp' = nextCmp + 1
    /\ UNCHANGED opLog

\* addComponent on a type name the registry does not hold: the error names
\* the type and nothing is created.
AddComponentMiss(m, e, T) ==
    /\ EcsCall("addComponent", m, 0, T, "error", "ComponentCreationError " \o T)
    /\ UNCHANGED compVars

\* addComponent(entity, typeName) on Manager m.
AddComponent(m, e, T) ==
    /\ UNCHANGED singletonVars
    /\ UNCHANGED runLog
    /\ e \in LiveEntities
    /\ IF T \in Registry(m)
         THEN AddComponentHit(m, e, T)
         ELSE AddComponentMiss(m, e, T)
    /\ UNCHANGED sceneVars
    /\ UNCHANGED << pc, cleanLog >>
    /\ UNCHANGED engineVars
    /\ UNCHANGED initVars
    /\ UNCHANGED runVars

Released_ManagerOnly(S) ==
    /\ compsList' = [m \in Managers |-> Without(compsList[m], S)]
    /\ comp' = Drop(comp, S)
    /\ setups' = Drop(setups, S)
    /\ updates' = Drop(updates, S)
    /\ UNCHANGED << entComps, nextCmp, opLog >>

\* The state left by destroying the Components in S: each is removed from
\* its Manager's list and from its Entity's list, then released.
Released(S) ==
    /\ compsList' = [m \in Managers |-> Without(compsList[m], S)]
    /\ entComps' = [e \in DOMAIN entComps |-> Without(entComps[e], S)]
    /\ comp' = Drop(comp, S)
    /\ setups' = Drop(setups, S)
    /\ updates' = Drop(updates, S)
    /\ UNCHANGED << nextCmp, opLog >>

Matches_AnyType(m, e, T) ==
    { i \in 1..Len(compsList[m]) : comp[compsList[m][i]].ent = e }

\* The positions in m's list of the Components of entity e with type T.
Matches(m, e, T) ==
    { i \in 1..Len(compsList[m]) :
        /\ comp[compsList[m][i]].ent = e
        /\ comp[compsList[m][i]].type = T }

\* The first element of a non-empty set of positions.
First(S) == CHOOSE i \in S : \A j \in S : i <= j

Victims_AllMatches(m, e, T) == { compsList[m][i] : i \in Matches(m, e, T) }

\* The Component destroyComponent removes: the first match in the list.
Victims(m, e, T) == { compsList[m][First(Matches(m, e, T))] }

\* bool Manager::destroyComponent(Entity* ent, int compId)
DestroyComponent(m, e, T) ==
    /\ UNCHANGED singletonVars
    /\ UNCHANGED runLog
    /\ e \in LiveEntities
    /\ IF Matches(m, e, T) # { }
         THEN /\ EcsCall("destroyComponent", m, e, T, "true", "none")
              /\ Released(Victims(m, e, T))
         ELSE /\ EcsCall("destroyComponent", m, e, T, "false", "none")
              /\ UNCHANGED compVars
    /\ UNCHANGED sceneVars
    /\ UNCHANGED << pc, cleanLog >>
    /\ UNCHANGED engineVars
    /\ UNCHANGED initVars
    /\ UNCHANGED runVars

\* void Manager::destroyAllComponents()
DestroyAllComponents(m) ==
    /\ UNCHANGED singletonVars
    /\ UNCHANGED runLog
    /\ EcsCall("destroyAllComponents", m, 0, "", "void", "none")
    /\ Released(Range(compsList[m]))
    /\ UNCHANGED sceneVars
    /\ UNCHANGED << pc, cleanLog >>
    /\ UNCHANGED engineVars
    /\ UNCHANGED initVars
    /\ UNCHANGED runVars

WalkOrder_Reversed(m) ==
    [i \in 1..Len(compsList[m]) |-> compsList[m][Len(compsList[m]) + 1 - i]]

\* The order in which start() and update() walk the Manager's list.
WalkOrder(m) == compsList[m]

\* void RenderManager::start(): setUp() on every Component of the list.
Start(m) ==
    /\ UNCHANGED singletonVars
    /\ UNCHANGED runLog
    /\ \A c \in Range(compsList[m]) : setups[c] < MaxTicks
    /\ EcsCall("start", m, 0, "", "void", "none")
    /\ setups' = [c \in DOMAIN setups |->
                     IF c \in Range(WalkOrder(m)) THEN setups[c] + 1 ELSE setups[c]]
    /\ opLog' = [i \in 1..Len(WalkOrder(m)) |-> << "setUp", WalkOrder(m)[i] >>]
    /\ UNCHANGED << entComps, compsList, comp, updates, nextCmp >>
    /\ UNCHANGED sceneVars
    /\ UNCHANGED << pc, cleanLog >>
    /\ UNCHANGED engineVars
    /\ UNCHANGED initVars
    /\ UNCHANGED runVars

DomainAction_None(m) == << >>

\* The Manager's own per-frame action: the RenderManager renders one frame.
DomainAction(m) ==
    IF m = "RenderManager" THEN << << "renderOneFrame", 0 >> >> ELSE << >>

\* void RenderManager::update(): the domain action, then update() on every
\* Component of the list.
ManagerUpdate(m) ==
    /\ UNCHANGED singletonVars
    /\ UNCHANGED runLog
    /\ \A c \in Range(compsList[m]) : updates[c] < MaxTicks
    /\ EcsCall("update", m, 0, "", "void", "none")
    /\ updates' = [c \in DOMAIN updates |->
                     IF c \in Range(WalkOrder(m)) THEN updates[c] + 1 ELSE updates[c]]
    /\ opLog' = DomainAction(m) \o
                  [i \in 1..Len(WalkOrder(m)) |-> << "update", WalkOrder(m)[i] >>]
    /\ UNCHANGED << entComps, compsList, comp, setups, nextCmp >>
    /\ UNCHANGED sceneVars
    /\ UNCHANGED << pc, cleanLog >>
    /\ UNCHANGED engineVars
    /\ UNCHANGED initVars
    /\ UNCHANGED runVars

\* The Entities the Scene holds.
SceneEntities == Range(entities)

ComponentsOf_None(E) == { }

\* The Components owned by the Entities in E.
ComponentsOf(E) == { c \in DOMAIN comp : comp[c].ent \in E }

\* The state left by Scene::clean(): every Entity of the Scene is destroyed,
\* and each Component it owns is destroyed through its Manager.
SceneCleaned ==
    /\ compsList' = [m \in Managers |-> Without(compsList[m], ComponentsOf(SceneEntities))]
    /\ entComps' = Drop(entComps, SceneEntities)
    /\ comp' = Drop(comp, ComponentsOf(SceneEntities))
    /\ setups' = Drop(setups, ComponentsOf(SceneEntities))
    /\ updates' = Drop(updates, ComponentsOf(SceneEntities))
    /\ entities' = << >>
    /\ UNCHANGED << usedNames, addLog, nextEnt, nextCmp, opLog >>

\* void Scene::clean()
SceneClean ==
    /\ UNCHANGED singletonVars
    /\ UNCHANGED runLog
    /\ EcsCall("Scene.clean", "", 0, "", "void", "none")
    /\ SceneCleaned
    /\ UNCHANGED << pc, cleanLog >>
    /\ UNCHANGED engineVars
    /\ UNCHANGED initVars
    /\ UNCHANGED runVars

\* ----------------------------------------------------- PapagayoEngine::clean

\* SceneManager::getInstance()->clean(), which cleans the Scene;
\* ResourceManager::getInstance()->clean(); delete instance_;   (instance_
\* keeps its value)
Clean ==
    /\ UNCHANGED singletonVars
    /\ UNCHANGED runLog
    /\ instance_ # NULL
    /\ engineAlive
    /\ ClientCall("clean", "", "void")
    /\ cleanLog' = cleanLog \o << "SceneManager", "ResourceManager" >>
    /\ engineAlive' = FALSE
    /\ SceneCleaned
    /\ UNCHANGED << instance_, appName_, running_, nextId, pc >>
    /\ UNCHANGED initVars
    /\ UNCHANGED runVars

\* ------------------------------------------------------- singleton access

\* The application name getInstance() passes to setupInstance().
DefaultAppName == "PAPAGAYO ENGINE"

\* PapagayoEngine* PapagayoEngine::getInstance(): creates the instance when
\* instance_ is nullptr (setupInstance then returns true, so the throw is
\* not reached) and returns instance_, whatever it designates.
GetInstance ==
    /\ pc = "idle"
    /\ nCalls < MaxCalls
    /\ nCalls' = nCalls + 1
    /\ lastError' = "none"
    /\ IF instance_ = NULL
         THEN NewEngine(DefaultAppName)
         ELSE UNCHANGED engineVars
    /\ lastCall' = [op |-> "getInstance", man |-> "PapagayoEngine", ent |-> instance_',
                    arg |-> "", ret |-> "instance"]
    /\ UNCHANGED << pc, cleanLog, runLog >>
    /\ UNCHANGED initVars
    /\ UNCHANGED runVars
    /\ UNCHANGED sceneVars
    /\ UNCHANGED compVars
    /\ UNCHANGED singletonVars

\* RenderManager* RenderManager::getInstance(): constructs the Manager on
\* first access (its constructor reads the OgreContext) and returns it.
RenderGetInstance ==
    /\ sub["OgreContext"]
    /\ IF renderInst = NULL
         THEN /\ renderInst' = nextId
              /\ nextId' = nextId + 1
         ELSE UNCHANGED << renderInst, nextId >>
    /\ EcsCall("getInstance", "RenderManager", renderInst', "", "instance", "none")
    /\ UNCHANGED << instance_, appName_, running_, engineAlive >>
    /\ UNCHANGED << uiInst, uiAlive, pc, cleanLog, runLog >>
    /\ UNCHANGED initVars
    /\ UNCHANGED runVars
    /\ UNCHANGED sceneVars
    /\ UNCHANGED compVars

\* UIManager* UIManager::getInstance(): returns instance_ and constructs
\* nothing.
UIGetInstance ==
    /\ EcsCall("getInstance", "UIManager", uiInst, "",
               IF uiInst = NULL THEN "null" ELSE "instance", "none")
    /\ UNCHANGED engineVars
    /\ UNCHANGED singletonVars
    /\ UNCHANGED << pc, cleanLog, runLog >>
    /\ UNCHANGED initVars
    /\ UNCHANGED runVars
    /\ UNCHANGED sceneVars
    /\ UNCHANGED compVars

\* The outcomes of new UIManager() inside the try block of setUpInstance().
UICtorOutcomes == { "created", "threw" }

\* bool UIManager::setUpInstance(): when instance_ is nullptr it constructs
\* the Manager (its constructor reads the OgreContext); catch (...) returns
\* false and leaves instance_ nullptr; otherwise it returns true.
UISetUpInstance ==
    /\ IF uiInst = NULL
         THEN /\ sub["OgreContext"]
              /\ \E o \in UICtorOutcomes :
                   IF o = "created"
                     THEN /\ uiInst' = nextId
                          /\ nextId' = nextId + 1
                          /\ uiAlive' = TRUE
                          /\ EcsCall("setUpInstance", "UIManager", nextId, "", "true", "none")
                     ELSE /\ UNCHANGED << uiInst, nextId, uiAlive >>
                          /\ EcsCall("setUpInstance", "UIManager", NULL, "", "false", "none")
         ELSE /\ UNCHANGED << uiInst, nextId, uiAlive >>
              /\ EcsCall("setUpInstance", "UIManager", uiInst, "", "true", "none")
    /\ UNCHANGED << instance_, appName_, running_, engineAlive >>
    /\ UNCHANGED << renderInst, pc, cleanLog, runLog >>
    /\ UNCHANGED initVars
    /\ UNCHANGED runVars
    /\ UNCHANGED sceneVars
    /\ UNCHANGED compVars

\* void UIManager::destroy(): clean(); CEGUI::OgreRenderer::destroySystem();
\* delete instance_;   (instance_ keeps its value)
UIDestroy ==
    /\ uiInst # NULL
    /\ uiAlive
    /\ EcsCall("destroy", "UIManager", uiInst, "", "void", "none")
    /\ uiAlive' = FALSE
    /\ UNCHANGED engineVars
    /\ UNCHANGED << renderInst, uiInst, pc, cleanLog, runLog >>
    /\ UNCHANGED initVars
    /\ UNCHANGED runVars
    /\ UNCHANGED sceneVars
    /\ UNCHANGED compVars

\* The calls of a client that only fills and queries the Scene.
NextScene ==
    \/ \E n \in SceneNames : AddEntity(n)
    \/ \E n \in SceneNames \cup { "Enemy_2" } : GetEntity(n)

\* The state after setupInstance("Juego") and a successful init().
EngineUp ==
    /\ instance_ = 1
    /\ appName_ = "Juego"
    /\ running_ = TRUE
    /\ engineAlive = TRUE
    /\ nextId = 2
    /\ sub = [s \in Subsystems |-> TRUE]
    /\ pc = "idle"
    /\ step = 0
    /\ caller = "client"
    /\ initLog = [i \in 1..Len(InitOrder) |-> << InitOrder[i], "created" >>]
    /\ rtShaderSetups = 1
    /\ meshCreated = 1
    /\ lastError = "none"
    /\ runState = "none"
    /\ initsInRun = 0
    /\ frames = 0
    /\ frameLog = << >>
    /\ lastFrame = << >>
    /\ framesDone = 0
    /\ stopAt = -1
    /\ initDone = TRUE
    /\ cleanLog = << >>
    /\ lastCall = [op |-> "init", man |-> "", ent |-> 0, arg |-> "", ret |-> "void"]
    /\ nCalls = 2

InitECS == EngineUp /\ EcsInit

\* The type names asked for by the client that builds and destroys.
EcsTypeNames == { "MeshComponent", "Rigidbody", "Script" }

\* The calls of a client that creates two Entities, builds Components of
\* registered types, destroys Components and tears the Scene down.
NextECS ==
    \/ nextEnt \in {1, 2} /\ AddEntity("Player")
    \/ \E m \in Managers : \E e \in LiveEntities : \E T \in EcsTypeNames :
          T \in Registry(m) /\ AddComponent(m, e, T)
    \/ \E m \in Managers : \E e \in LiveEntities : \E T \in EcsTypeNames :
          DestroyComponent(m, e, T)
    \/ \E m \in Managers : DestroyAllComponents(m)
    \/ SceneClean
    \/ Clean

SpecECS == InitECS /\ [][NextECS]_vars

\* The calls of a client that creates two Entities, one after the other,
\* and asks every Manager for every type name on the Entity created last.
NextAdd ==
    \/ nextEnt \in {1, 2} /\ AddEntity("Player")
    \/ \E m \in Managers : \E e \in LiveEntities : \E T \in TypeNames :
          e = nextEnt - 1 /\ AddComponent(m, e, T)

SpecAdd == InitECS /\ [][NextAdd]_vars

\* The calls of a client that creates the Entity Player, gives it render
\* and physics Components and drives the Managers.
NextTick ==
    \/ nextEnt = 1 /\ AddEntity("Player")
    \/ \E m \in Managers : \E e \in LiveEntities : \E T \in { "MeshComponent", "Rigidbody" } :
          T \in Registry(m) /\ AddComponent(m, e, T)
    \/ \E m \in Managers : Start(m)
    \/ \E m \in Managers : ManagerUpdate(m)

SpecTick == InitECS /\ [][NextTick]_vars

SpecScene == InitECS /\ [][NextScene]_vars

\* The calls of a client that sets the engine up and accesses, creates and
\* destroys the singletons.
NextSingletons ==
    \/ \E n \in AppNames : SetupInstance(n)
    \/ GetInstance
    \/ InitCall
    \/ InitSetup
    \/ InitPost
    \/ Clean
    \/ RenderGetInstance
    \/ UIGetInstance
    \/ UISetUpInstance
    \/ UIDestroy

SpecSingletons == Init /\ [][NextSingletons]_vars

Next ==
    \/ RunCall
    \/ RunLoop
    \/ RenderOneFrame
    \/ UpdateCall
    \/ StopCall
    \/ StopInFrame
    \/ Clean
    \/ InitCall
    \/ InitSetup
    \/ InitPost
    \/ \E n \in AppNames : SetupInstance(n)

Spec == Init /\ [][Next]_vars

\* The thread of control inside init(), run() and update() keeps executing:
\* a statement that can be executed eventually is.
Fairness ==
    /\ WF_vars(InitSetup)
    /\ WF_vars(InitPost)
    /\ WF_vars(RunLoop)
    /\ WF_vars(RenderOneFrame)

SpecLive == Init /\ [][Next]_vars /\ Fairness
\* ------------------------------------------------------------------ claims

Last(seq) == seq[Len(seq)]

\* The latest init() (called by the client or by run()) ended with a throw.
InitFailed == initLog # << >> /\ Last(initLog)[2] = "threw"

\* C1: setupInstance(appName) creates the instance and returns true when none
\* exists; once an instance exists every setupInstance call, whatever its
\* appName, returns false and no step changes the instance's identity or
\* its application name.
C1_SetupInstanceOnce ==
    [][ /\ (nCalls' # nCalls /\ lastCall'.op = "setupInstance") =>
             IF instance_ = NULL
               THEN /\ lastCall'.ret = "true"
                    /\ instance_' # NULL
                    /\ engineAlive'
                    /\ appName_' = lastCall'.arg
               ELSE /\ lastCall'.ret = "false"
                    /\ instance_' = instance_
                    /\ appName_' = appName_
        /\ (instance_ # NULL => instance_' = instance_ /\ appName_' = appName_)
      ]_vars

\* A later setupInstance with another appName has returned false.
C1_Witness ==
    /\ lastCall.op = "setupInstance"
    /\ lastCall.ret = "false"
    /\ instance_ # NULL
    /\ lastCall.arg # appName_

\* C2 (as claimed): once an init() has run to completion, a later init() call
\* (the client's, or the one run() makes) initializes nothing again: no
\* subsystem is set up, the shader generator is not set up again and no
\* further MeshComponent is created.
C2_SecondInitNoOp ==
    [][ initDone => /\ sub' = sub
                    /\ rtShaderSetups' = rtShaderSetups
                    /\ meshCreated' = meshCreated ]_vars

\* C3: within every execution of init() the setupInstance calls are made in
\* the order OgreContext, ResourceManager, SceneManager, and no subsystem
\* exists while one that precedes it in this order does not.
C3_FixedOrder ==
    LET order == << "OgreContext", "ResourceManager", "SceneManager" >> IN
    /\ Len(initLog) <= Len(order)
    /\ \A i \in 1..Len(initLog) : initLog[i][1] = order[i]
    /\ \A i \in 1..Len(order) : \A j \in 1..Len(order) :
          (i < j /\ sub[order[j]]) => sub[order[i]]

\* An init() has set up all three subsystems, the SceneManager last.
C3_Witness ==
    /\ Len(initLog) = 3
    /\ initLog[1][2] = "created"
    /\ initLog[3] = << "SceneManager", "created" >>

\* C4: when the setupInstance of a subsystem fails, init() is left at that
\* step: the failing call is the last one init() made, and no subsystem after
\* it in the fixed order has been initialized.
C4_AbortAtFailure ==
    LET order == << "OgreContext", "ResourceManager", "SceneManager" >> IN
    \A i \in 1..Len(initLog) :
        initLog[i][2] = "threw" =>
            /\ i = Len(initLog)
            /\ pc # "init"
            /\ \A j \in 1..Len(order) : j >= i => ~sub[order[j]]

\* The ResourceManager failed inside the init() of a run().
C4_Witness ==
    /\ InitFailed
    /\ Last(initLog)[1] = "ResourceManager"
    /\ sub["OgreContext"]
    /\ lastCall.op = "run"

C6_InitializedOnlyIfAllSucceeded ==
    /\ (pc \in {"loop", "frame"} /\ caller = "run") =>
           /\ ~InitFailed
           /\ Len(initLog) = Len(InitOrder)
           /\ \A s \in Subsystems : sub[s]
    /\ (pc = "idle" /\ lastCall.op = "init" /\ lastError = "none") =>
           /\ ~InitFailed
           /\ \A s \in Subsystems : sub[s]
    /\ (lastCall.op = "run" /\ InitFailed) =>
           /\ pc = "idle"
           /\ runState = "failed"
           /\ frames = 0

\* A run() whose init() failed at the SceneManager.
C6_Witness ==
    /\ lastCall.op = "run"
    /\ InitFailed
    /\ Last(initLog)[1] = "SceneManager"
    /\ runState = "failed"

\* C7: run() calls init() once, as its first step; no init() is entered
\* later in the run; an update() is started only from the top of the loop,
\* after that init() has completed, and only when running_ holds there.
C7_RunInitThenLoop ==
    [][ /\ (nCalls' # nCalls /\ lastCall'.op = "run") =>
             (pc' = "init" /\ step' = 1 /\ initsInRun' = 1 /\ frames' = 0)
        /\ (runState = "active" /\ pc # "init") => pc' # "init"
        /\ (runState = "active" /\ runState' = "active") => initsInRun' = initsInRun
        /\ (frames' = frames + 1) =>
             /\ running_
             /\ pc = "loop"
             /\ initsInRun = 1
             /\ Len(initLog) = Len(InitOrder)
             /\ ~InitFailed
      ]_vars

\* run() returned at the top of the loop, after at least one update(),
\* because running_ was false there.
C7_Witness ==
    /\ lastCall.op = "run"
    /\ runState = "returned"
    /\ frames >= 1
    /\ ~running_
\* The domain Managers in the fixed order the frame is to update them in.
ManagerOrder == << "RenderManager", "PhysicsManager", "InputSystem", "UIManager" >>

\* The calls a complete frame makes: the frame advance, then every Manager's
\* update() in the fixed order.
CompleteFrame ==
    << "renderOneFrame" >> \o
        [i \in 1..Len(ManagerOrder) |-> ManagerOrder[i] \o ".update"]

\* C8 (as claimed): when running_ is cleared while a frame of run() is in
\* flight, no further frame is started, and the frame in flight, unless it
\* fails, runs to completion with every Manager updated.
C8_CooperativeStop ==
    (stopAt >= 1 /\ lastCall.op = "run") =>
        /\ frames = stopAt
        /\ (pc \in {"loop", "idle"} /\ lastError = "none") =>
               lastFrame = CompleteFrame

\* C9 (as claimed): every update() that returned has advanced the frame
\* context first and then called update() once on every Manager, in the
\* fixed order.
C9_FrameUpdatesManagers ==
    framesDone > 0 => lastFrame = CompleteFrame

\* C10: a failure of the frame advance inside an update() of run() leaves
\* run() by the exception (control is back in the client with the render
\* error), and a run() that has failed never starts another update().
C10_FrameFailureFatal ==
    [][ /\ (pc = "frame" /\ caller = "run" /\ framesDone' = framesDone) =>
              /\ pc' \in {"frame", "idle"}
              /\ pc' = "idle" => (lastError' = RenderError /\ runState' = "failed")
        /\ (runState = "failed" /\ runState' = "failed") =>
              /\ frames' = frames
              /\ pc' # "loop"
        /\ (runState = "failed" /\ lastCall.op = "run") => pc = "idle"
      ]_vars

\* The second frame of a run() failed.
C10_Witness ==
    /\ lastCall.op = "run"
    /\ runState = "failed"
    /\ lastError = RenderError
    /\ frames = 2
    /\ framesDone = 1

\* ------------------------------------------- Claims on the Managers

C13_StartSetsUpInListOrder ==
    [][ \A m \in Managers :
          (lastCall'.op = "start" /\ lastCall'.man = m)
          => /\ opLog' = [i \in 1..Len(compsList[m]) |-> << "setUp", compsList[m][i] >>]
             /\ \A i, j \in 1..Len(compsList[m]) :
                    i < j => compsList[m][i] < compsList[m][j]
             /\ \A c \in DOMAIN comp :
                    setups'[c] = setups[c] + (IF comp[c].man = m THEN 1 ELSE 0)
             /\ UNCHANGED << compsList, entComps, comp, updates >>
      ]_vars

\* The Render Manager was started while it held two Components and the
\* physics domain held one.
C13_Witness ==
    /\ lastCall.op = "start"
    /\ lastCall.man = "RenderManager"
    /\ Len(compsList["RenderManager"]) = 2
    /\ Len(opLog) = 2
    /\ compsList["PhysicsManager"] # << >>

\* C14 (as claimed): every Component is set up exactly once and before its
\* first update(): no Component has been updated without having been set
\* up, and none has been set up twice.
C14_SetupOnceBeforeUpdate ==
    \A c \in DOMAIN comp :
        /\ setups[c] <= 1
        /\ updates[c] > 0 => setups[c] = 1

\* C15: destroyComponent(entity, id) on a Manager holding a Component of
\* that entity and id returns success and removes exactly one such
\* Component from the Manager's live list and from the entity's owned list;
\* every other Component keeps its presence and relative order in the lists.
C15_DestroyRemovesTheMatch ==
    [][ \A m \in Managers : \A e \in LiveEntities : \A T \in TypeNames :
          ( /\ lastCall'.op = "destroyComponent"
            /\ lastCall'.man = m /\ lastCall'.ent = e /\ lastCall'.arg = T
            /\ \E c \in DOMAIN comp : comp[c] = [type |-> T, man |-> m, ent |-> e] )
          => /\ lastCall'.ret = "true"
             /\ \E c \in DOMAIN comp :
                  /\ comp[c] = [type |-> T, man |-> m, ent |-> e]
                  /\ compsList' = [compsList EXCEPT ![m] = Without(@, {c})]
                  /\ entComps' = [entComps EXCEPT ![e] = Without(@, {c})]
                  /\ Len(compsList'[m]) = Len(compsList[m]) - 1
                  /\ Len(entComps'[e]) = Len(entComps[e]) - 1
                  /\ comp' = Drop(comp, {c})
      ]_vars

\* The second of three Components of the Render Manager was destroyed,
\* between two Components of the same type that stayed.
C15_Witness ==
    /\ lastCall.op = "destroyComponent"
    /\ lastCall.ret = "true"
    /\ lastCall.arg = "MeshComponent"
    /\ compsList["RenderManager"] = << 1, 3 >>
    /\ comp[1].type = "MeshComponent"
    /\ comp[3].type = "MeshComponent"

\* C16: destroyComponent on a Manager that holds no Component of that
\* entity and id returns false and leaves the Manager's live list and the
\* entity's owned list as they were, in size and in contents.
C16_DestroyMissChangesNothing ==
    [][ \A m \in Managers : \A e \in LiveEntities : \A T \in TypeNames :
          ( /\ lastCall'.op = "destroyComponent"
            /\ lastCall'.man = m /\ lastCall'.ent = e /\ lastCall'.arg = T
            /\ ~ \E c \in DOMAIN comp : comp[c] = [type |-> T, man |-> m, ent |-> e] )
          => /\ lastCall'.ret = "false"
             /\ UNCHANGED << compsList, entComps, comp >>
      ]_vars

\* The physics domain was asked to destroy the MeshComponent of an Entity
\* that owns one, held by the Render Manager, and a Rigidbody of its own.
C16_Witness ==
    /\ lastCall.op = "destroyComponent"
    /\ lastCall.ret = "false"
    /\ lastCall.man = "PhysicsManager"
    /\ lastCall.arg = "MeshComponent"
    /\ \E c \in DOMAIN comp :
          comp[c] = [type |-> "MeshComponent", man |-> "RenderManager", ent |-> lastCall.ent]
    /\ \E c \in DOMAIN comp :
          comp[c] = [type |-> "Rigidbody", man |-> "PhysicsManager", ent |-> lastCall.ent]

\* C17: after destroyAllComponents() on a Manager its live list is empty
\* and no Entity's owned list holds a Component the Manager owned; the
\* Components of the other Managers stay where they were, in their
\* Managers' lists and in their Entities' lists.
C17_DestroyAllEmptiesOneManager ==
    [][ \A m \in Managers :
          (lastCall'.op = "destroyAllComponents" /\ lastCall'.man = m)
          => /\ compsList'[m] = << >>
             /\ \A m2 \in Managers \ {m} : compsList'[m2] = compsList[m2]
             /\ DOMAIN entComps' = DOMAIN entComps
             /\ \A e \in DOMAIN entComps :
                  entComps'[e] = SelectSeq(entComps[e], LAMBDA c : comp[c].man # m)
             /\ \A c \in DOMAIN comp : comp[c].man # m => (c \in DOMAIN comp' /\ comp'[c] = comp[c])
      ]_vars

\* The Render Manager was emptied while the physics domain holds the second
\* of three Components, on an Entity.
C17_Witness ==
    /\ lastCall.op = "destroyAllComponents"
    /\ lastCall.man = "RenderManager"
    /\ nextCmp = 4
    /\ compsList["PhysicsManager"] = << 2 >>
    /\ \E e \in LiveEntities : entComps[e] = << 2 >>

\* ---------------------------------------------- Claims on the Scene

\* The key n was in use when the p-th addEntity was made.
InUseAt(p, n) == \E q \in 1..(p - 1) : addLog[q][2] = n

\* The collisions on base name n before the p-th addEntity.
CollisionsBefore(p, n) ==
    Cardinality({ q \in 1..(p - 1) : addLog[q][1] = n /\ InUseAt(q, n) })

\* The addEntity calls made with base name n.
Uses(n) == { p \in DOMAIN addLog : addLog[p][1] = n }

\* C18: the addEntity calls that use one base name N times hold N distinct
\* keys in the Scene: a call that finds the name free stores under the name,
\* and the k-th collision on the name stores under name + "_" + k, k being a
\* counter of that base name that persists across calls (adding Enemy three
\* times yields exactly the keys Enemy, Enemy_1, Enemy_2).
C18_DistinctKeysPerBaseName ==
    /\ \A n \in SceneNames :
         /\ \A p \in Uses(n) :
              /\ addLog[p][2] = IF InUseAt(p, n)
                                  THEN n \o "_" \o ToString(CollisionsBefore(p, n) + 1)
                                  ELSE n
              /\ addLog[p][2] \in DOMAIN entities
         /\ Cardinality({ addLog[p][2] : p \in Uses(n) }) = Cardinality(Uses(n))
         /\ Counter(n) = Cardinality({ p \in Uses(n) : InUseAt(p, n) })
    /\ (Len(addLog) = 3 /\ Uses("Enemy") = {1, 2, 3})
         => DOMAIN entities = { "Enemy", "Enemy_1", "Enemy_2" }

\* Enemy was added three times and nothing else.
C18_Witness ==
    /\ Len(addLog) = 3
    /\ Uses("Enemy") = {1, 2, 3}
    /\ DOMAIN entities = { "Enemy", "Enemy_1", "Enemy_2" }
    /\ usedNames["Enemy"] = 2

\* C19: getEntity(name) looks the exact key up: it returns the Entity stored
\* under that key, returns not-found when the key is absent, also when a
\* key name_k is present, and changes neither the entity mapping nor the
\* collision counters.
C19_GetEntityExactKey ==
    [][ \A n \in SceneNames \cup { "Enemy_2" } :
          (lastCall'.op = "getEntity" /\ lastCall'.arg = n)
          => /\ UNCHANGED << entities, usedNames >>
             /\ IF n \in DOMAIN entities
                  THEN lastCall'.ret = "found" /\ lastCall'.ent = entities[n]
                  ELSE lastCall'.ret = "null" /\ lastCall'.ent = 0
      ]_vars

\* Enemy was looked up and not found while the key Enemy_1 is present.
C19_Witness ==
    /\ lastCall.op = "getEntity"
    /\ lastCall.arg = "Enemy"
    /\ lastCall.ret = "null"
    /\ "Enemy" \notin DOMAIN entities
    /\ "Enemy_1" \in DOMAIN entities

\* C20: after Scene.clean(), made by the client or by the engine's clean(),
\* the Scene holds no Entity, and no Manager's live list holds a Component
\* of an Entity the Scene held: each was removed from its Manager's list,
\* and the Components of no other Entity were.
C20_SceneCleanThroughManagers ==
    [][ lastCall'.op \in { "Scene.clean", "clean" }
          => /\ entities' = << >>
             /\ \A m \in Managers :
                  /\ \A i \in 1..Len(compsList'[m]) :
                        comp[compsList'[m][i]].ent \notin Range(entities)
                  /\ compsList'[m] =
                        SelectSeq(compsList[m], LAMBDA c : comp[c].ent \notin Range(entities))
             /\ \A c \in DOMAIN comp :
                  comp[c].ent \in Range(entities) => c \notin DOMAIN comp'
             /\ \A e \in Range(entities) : e \notin DOMAIN entComps'
      ]_vars

\* The Scene was cleaned after two Entities and three Components, of the
\* Render Manager and of the physics domain, had been created.
C20_Witness ==
    /\ lastCall.op = "Scene.clean"
    /\ entities = << >>
    /\ nextEnt = 3
    /\ nextCmp = 4
    /\ comp = << >>
    /\ \A m \in Managers : compsList[m] = << >>

\* ------------------------------------- Claims on the frame loop, part 2

\* The frames of the latest run() that returned, while run() is the
\* client's last call.
Ticks ==
    IF frames = 0 THEN 0
    ELSE IF pc = "frame" \/ runState = "failed" THEN frames - 1
    ELSE frames

\* The number of frame advances in a record of calls.
Advances(log) == Cardinality({ i \in DOMAIN log : log[i] = "renderOneFrame" })

C24_OneAdvancePerTick ==
    /\ framesDone > 0 => Advances(lastFrame) = 1
    /\ Advances(frameLog) <= 1
    /\ lastCall.op = "run" => Advances(runLog) = Ticks

\* The second frame of a run() has returned and the loop goes on.
C24_Witness ==
    /\ lastCall.op = "run"
    /\ pc = "loop"
    /\ running_
    /\ frames = 2
    /\ Advances(runLog) = 2
    /\ lastFrame = << "renderOneFrame" >>

\* ------------------------------------------- Claims on ownership

\* C22 (as claimed): every live Component is in the live list of exactly
\* one Manager and in the owned list of exactly one Entity, and no
\* operation, init() included, has left a live Component that no Manager
\* and no Entity tracks.
C22_OwnershipInvariant ==
    /\ \A c \in DOMAIN comp :
         /\ Cardinality({ m \in Managers : c \in Range(compsList[m]) }) = 1
         /\ Cardinality({ e \in DOMAIN entComps : c \in Range(entComps[e]) }) = 1
    /\ meshCreated = 0

\* C23 (as claimed): addEntity never overwrites or drops an entry: the
\* Scene holds as many entries as addEntity calls were made, and every
\* Entity added is still stored under the key it was given.
C23_NoEntryLost ==
    /\ Cardinality(DOMAIN entities) = Len(addLog)
    /\ \A p \in DOMAIN addLog :
         /\ addLog[p][2] \in DOMAIN entities
         /\ entities[addLog[p][2]] = addLog[p][3]

\* ------------------------------------------- Claims on teardown

\* A sequence in reverse order.
Reverse(seq) == [i \in 1..Len(seq) |-> seq[Len(seq) + 1 - i]]

\* C27 (as claimed): clean() after a complete init() tears down every
\* subsystem init() brought up, once each, in the reverse of the order of
\* initialization.
C27_ReverseTeardown ==
    (lastCall.op = "clean" /\ initDone /\ \A s \in Subsystems : sub[s])
        => cleanLog = Reverse(InitOrder)

\* ------------------------------------------- Claims on Manager.update

\* C25: Manager.update() performs the Manager's own per-frame action first
\* (the Render Manager renders one frame) and then calls update() exactly
\* once on every Component of its live list, in the order of the list, which
\* is the order of insertion, and on no other Component; a second update()
\* on an unmodified list makes the same calls in the same order.
C25_UpdateDomainFirstThenListOrder ==
    [][ \A m \in Managers :
          (lastCall'.op = "update" /\ lastCall'.man = m)
          => /\ opLog' = (IF m = "RenderManager"
                            THEN << << "renderOneFrame", 0 >> >>
                            ELSE << >>)
                         \o [i \in 1..Len(compsList[m]) |-> << "update", compsList[m][i] >>]
             /\ \A i, j \in 1..Len(compsList[m]) :
                    i < j => compsList[m][i] < compsList[m][j]
             /\ \A c \in DOMAIN comp :
                    updates'[c] = updates[c] + (IF comp[c].man = m THEN 1 ELSE 0)
             /\ UNCHANGED << compsList, entComps, comp, setups >>
             /\ (lastCall.op = "update" /\ lastCall.man = m) => opLog' = opLog
      ]_vars

\* The Render Manager made its second update() over two Components while
\* the physics domain holds one.
C25_Witness ==
    /\ lastCall.op = "update"
    /\ lastCall.man = "RenderManager"
    /\ Len(compsList["RenderManager"]) = 2
    /\ opLog = << << "renderOneFrame", 0 >>,
                  << "update", compsList["RenderManager"][1] >>,
                  << "update", compsList["RenderManager"][2] >> >>
    /\ \A c \in Range(compsList["RenderManager"]) : updates[c] = 2
    /\ compsList["PhysicsManager"] # << >>

\* ------------------------------------------- Claims on termination

\* C26: once the running flag is false during a run(), the run() ends: it
\* returns at the next evaluation of the loop condition, unless a frame or
\* init() fails first and the exception leaves it.
C26_StopEndsRun ==
    (runState = "active" /\ ~running_) ~> (runState \in { "returned", "failed" })

\* A run() returned at the top of the loop after the flag was cleared in
\* its second frame.
C26_Witness ==
    /\ lastCall.op = "run"
    /\ runState = "returned"
    /\ ~running_
    /\ stopAt = 2
    /\ frames = 2
    /\ Len(runLog) = 2

\* ------------------------------------------- Claims on the singletons

\* C28 (as claimed): getInstance() of a domain Manager constructs the
\* Manager on first access and returns the one instance, never null, on the
\* first call and on every later call.
C28_ManagerGetInstanceLazy ==
    (lastCall.op = "getInstance" /\ lastCall.man \in { "RenderManager", "UIManager" })
        => /\ lastCall.ent # NULL
           /\ lastCall.ent = IF lastCall.man = "RenderManager" THEN renderInst ELSE uiInst

\* C29 (as claimed): PapagayoEngine::getInstance() returns an instance that
\* exists: it creates one when none exists and otherwise returns the
\* existing one.
C29_GetInstanceReturnsLiveInstance ==
    (lastCall.op = "getInstance" /\ lastCall.man = "PapagayoEngine")
        => /\ lastCall.ent # NULL
           /\ lastCall.ent = instance_
           /\ engineAlive

\* C30 (as claimed): a singleton pointer never designates a destroyed
\* instance: after PapagayoEngine::clean() and after UIManager::destroy()
\* the pointer is null or designates a new instance.
C30_NoPointerToDestroyed ==
    /\ instance_ # NULL => engineAlive
    /\ uiInst # NULL => uiAlive

\* C31 (as claimed): UIManager::setUpInstance() returns true exactly when a
\* UIManager instance exists after the call: false when construction failed,
\* the instance staying absent, and true when the instance was constructed
\* or existed already.
C31_SetUpInstanceTrueIffInstance ==
    (lastCall.op = "setUpInstance" /\ lastCall.man = "UIManager")
        => /\ lastCall.ret \in { "true", "false" }
           /\ lastCall.ret = "true" <=> (uiInst # NULL /\ uiAlive)
           /\ lastCall.ret = "false" => uiInst = NULL
====
